---- MODULE Spec2Model ----
(***************************************************************************)
(* Model of keystone's application credential Manager                      *)
(* (keystone/application_credential/core.py), of the driver contract it     *)
(* delegates to (keystone/application_credential/backends/base.py) and of   *)
(* the external authentication plugins (keystone/auth/plugins/external.py). *)
(***************************************************************************)
EXTENDS Integers, Sequences, FiniteSets, TLC

\* ------------------------------------------------------------------ bounds

\* Number of application credentials created in one run (ids are 1..MaxCreds).
MaxCreds == 2

\* Number of calls, callbacks and environment steps in one run.
MaxSteps == 4

\* How many calls a run of the step-by-step specification begins.
MaxCalls == 3

\* ------------------------------------------------------------ environment

Users == {"u1", "u2"}

Projects == {"p1", "p2"}

Roles == {"r1", "r2"}

Secrets == {"s1"}

Ids == 1..MaxCreds

\* The role assignments of the deployment when the manager is constructed.
InitialAssignments ==
    { <<"u1", "p1", "r1">>, <<"u1", "p1", "r2">>, <<"u2", "p2", "r1">> }

\* ---------------------------------------------------------- dictionaries

\* dict.pop(k): the dictionary without key k.
Pop(d, k) == [f \in DOMAIN d \ {k} |-> d[f]]

\* d[k] = v on a dictionary.
Put(d, k, v) == [f \in DOMAIN d \cup {k} |-> IF f = k THEN v ELSE d[f]]

Range(s) == { s[i] : i \in DOMAIN s }

\* The function f without the key k.
Without(f, k) == [x \in DOMAIN f \ {k} |-> f[x]]

\* Lists of length at most n over the set S.
RECURSIVE ListsUpTo(_, _)
ListsUpTo(S, n) ==
    IF n = 0 THEN { <<>> }
    ELSE LET shorter == ListsUpTo(S, n - 1)
         IN  shorter \cup { Append(l, x) : l \in shorter, x \in S }

NoRepeat(l) == \A i, j \in DOMAIN l : l[i] = l[j] => i = j

\* A role reference as a create request carries it: {'id': role_id}.
RoleRef(r) == [id |-> r]

\* The role lists of the create requests: every list of distinct roles.
RoleRequests ==
    { [i \in DOMAIN l |-> RoleRef(l[i])] :
        l \in { m \in ListsUpTo(Roles, Cardinality(Roles)) : NoRepeat(m) } }

\* ------------------------------------------------------------------ state

VARIABLES
    store,        \* the driver's records: credential id -> stored record
    cache,        \* the MEMOIZE region of get_application_credential: key -> value
    assignments,  \* the effective role assignments: <<user, project, role>>
    audit,        \* the audit events emitted so far, in order
    supplied,     \* what each create call was given: id -> request (history)
    result,       \* the call of the last step, and what it returned or raised
    steps,        \* how many steps the run has taken
    auth,         \* the last external authentication: request, lookups, outcome
    calls         \* the calls running on their own threads, step by step, in
                  \* the order they began: position, locals, outcome

vars == <<store, cache, assignments, audit, supplied, result, steps, auth, calls>>

managerVars == <<store, cache, assignments, audit, supplied, result, steps, calls>>

\* ------------------------------------------------- external collaborators

\* role_api.get_role(role_id): the role object of a role id.
get_role(role_id) == [id |-> role_id, name |-> "name_of_" \o role_id]

\* The driver's one-way hash of a secret.
hash_secret(secret) == <<"hashed", secret>>

\* assignment_api.list_role_assignments(user_id, project_id, effective=True)
list_role_assignments(user_id, project_id) ==
    { [user_id |-> a[1], project_id |-> a[2], role_id |-> a[3]] :
        a \in { b \in assignments : b[1] = user_id /\ b[2] = project_id } }

\* ----------------------------------------------------------- the driver

\* driver.create_application_credential(application_credential, roles):
\* the record the driver keeps and returns, the secret replaced by its hash.
driver_create_application_credential(application_credential, roles) ==
    Put(Put(Pop(application_credential, "secret"),
            "secret_hash", hash_secret(application_credential["secret"])),
        "roles", roles)

\* driver.get_application_credential(id): the record, or NotFound.
driver_get_application_credential(application_credential_id) ==
    IF application_credential_id \in DOMAIN store
    THEN [status |-> "ok", value |-> store[application_credential_id]]
    ELSE [status |-> "NotFound"]

\* The ids of a set, in ascending order.
RECURSIVE SortedIds(_)
\* The contract of the driver's authenticate: "ok", or the AssertionError it
\* raises when the id or the secret is invalid.
driver_authenticate(application_credential_id, secret) ==
    IF /\ application_credential_id \in DOMAIN store
       /\ store[application_credential_id]["secret_hash"] = hash_secret(secret)
    THEN [status |-> "ok"]
    ELSE [status |-> "AssertionError"]

SortedIds(S) ==
    IF S = {} THEN <<>>
    ELSE LET m == CHOOSE x \in S : \A y \in S : x <= y
         IN  <<m>> \o SortedIds(S \ {m})

\* driver.list_application_credentials_for_user(user_id, hints), no filter set.
driver_list_application_credentials_for_user(user_id) ==
    LET ids == SortedIds({ i \in DOMAIN store : store[i]["user_id"] = user_id })
    IN  [k \in DOMAIN ids |-> store[ids[k]]]

\* driver.delete_application_credential(id): the store without the record.
driver_delete_application_credential(application_credential_id) ==
    Without(store, application_credential_id)

\* driver.delete_application_credentials_for_user(user_id)
driver_delete_application_credentials_for_user(user_id) ==
    [i \in { j \in DOMAIN store : store[j]["user_id"] # user_id } |-> store[i]]

\* driver.delete_application_credentials_for_user_on_project(user_id, project_id)
driver_delete_application_credentials_for_user_on_project(user_id, project_id) ==
    [i \in { j \in DOMAIN store :
                ~(store[j]["user_id"] = user_id /\ store[j]["project_id"] = project_id) }
       |-> store[i]]

\* ------------------------------------------------------ the MEMOIZE region

\* The key of a memoized call: its arguments, self left out.
CacheKey(args) == args

\* get_application_credential.invalidate(*args): drops the entry whose key the
\* given arguments generate.
invalidate(args) == Without(cache, CacheKey(args))

\* ------------------------------------------------------------ the Manager

\* _get_user_roles with the project filter left out of the query.
_get_user_roles_any_project(user_id, project_id) ==
    { a[3] : a \in { b \in assignments : b[1] = user_id } }

_get_user_roles(user_id, project_id) ==
    { x["role_id"] : x \in list_role_assignments(user_id, project_id) }

\* _require_user_has_role_in_project that looks at the first requested role only.
_require_first_role_only(roles, user_id, project_id) ==
    LET user_roles == _get_user_roles(user_id, project_id)
    IN  IF roles = << >> \/ roles[1]["id"] \in user_roles
        THEN [status |-> "ok"]
        ELSE [status |-> "RoleAssignmentNotFound",
              role_id |-> roles[1]["id"],
              actor_id |-> user_id,
              target_id |-> project_id]

\* _require_user_has_role_in_project that also rejects a user who holds no
\* role at all on the project.
_require_some_role_in_project(roles, user_id, project_id) ==
    LET user_roles == _get_user_roles(user_id, project_id)
        unmatched == { i \in DOMAIN roles : roles[i]["id"] \notin user_roles }
    IN  IF user_roles = {}
        THEN [status |-> "RoleAssignmentNotFound",
              role_id |-> "",
              actor_id |-> user_id,
              target_id |-> project_id]
        ELSE IF unmatched = {}
        THEN [status |-> "ok"]
        ELSE LET first == CHOOSE i \in unmatched : \A j \in unmatched : i <= j
             IN  [status |-> "RoleAssignmentNotFound",
                  role_id |-> roles[first]["id"],
                  actor_id |-> user_id,
                  target_id |-> project_id]

\* "ok", or the RoleAssignmentNotFound raised for the first role of the
\* request the user does not hold.
_require_user_has_role_in_project(roles, user_id, project_id) ==
    LET user_roles == _get_user_roles(user_id, project_id)
        unmatched == { i \in DOMAIN roles :
                         { x \in user_roles : x = roles[i]["id"] } = {} }
    IN  IF unmatched = {}
        THEN [status |-> "ok"]
        ELSE LET first == CHOOSE i \in unmatched : \A j \in unmatched : i <= j
             IN  [status |-> "RoleAssignmentNotFound",
                  role_id |-> roles[first]["id"],
                  actor_id |-> user_id,
                  target_id |-> project_id]

\* _get_role_list that returns after the first role.
_get_role_list_first_only(app_cred_roles) ==
    [i \in DOMAIN app_cred_roles \cap {1} |-> get_role(app_cred_roles[i]["id"])]

_get_role_list(app_cred_roles) ==
    [i \in DOMAIN app_cred_roles |-> get_role(app_cred_roles[i]["id"])]

\* _process_app_cred that leaves the hash in the projection.
_process_app_cred_keeps_hash(app_cred_ref) ==
    Put(app_cred_ref, "roles", _get_role_list(app_cred_ref["roles"]))

_process_app_cred(app_cred_ref) ==
    Put(Pop(app_cred_ref, "secret_hash"),
        "roles", _get_role_list(app_cred_ref["roles"]))

\* The value of result when the last step was no call of the manager.
NoCall == [op |-> "none"]

\* The create requests the API layer hands to the manager for a new id: the
\* roles key may be missing.
CreateRequests(id) ==
    LET base == { [id |-> id, user_id |-> u, project_id |-> p, secret |-> s] :
                    u \in Users, p \in Projects, s \in Secrets }
    IN  base \cup { Put(b, "roles", rs) : b \in base, rs \in RoleRequests }

\* application_credential.pop('roles', [])
RequestedRoles(application_credential) ==
    IF "roles" \in DOMAIN application_credential
    THEN application_credential["roles"]
    ELSE <<>>

\* The role ids of a list of role references or role objects.
RoleIds(roles) == { roles[k]["id"] : k \in DOMAIN roles }

\* The id the next create request carries: ids are generated fresh.
NextId == Cardinality(DOMAIN supplied) + 1

\* create_application_credential that also writes the new projection into the
\* cache of get_application_credential.
create_application_credential_write_through(application_credential) ==
    LET user_id == application_credential["user_id"]
        project_id == application_credential["project_id"]
        roles == RequestedRoles(application_credential)
        popped == Pop(application_credential, "roles")
        check == _require_user_has_role_in_project(roles, user_id, project_id)
        unhashed_secret == popped["secret"]
        stored == driver_create_application_credential(popped, roles)
        ref == _process_app_cred(Put(stored, "secret", unhashed_secret))
    IN  /\ NextId <= MaxCreds
        /\ application_credential["id"] = NextId
        /\ IF check.status # "ok"
           THEN /\ result' = [op |-> "create", request |-> application_credential] @@ check
                /\ UNCHANGED <<store, cache, audit, supplied>>
           ELSE /\ store' = (popped["id"] :> stored) @@ store
                /\ cache' = (CacheKey(<<popped["id"]>>) :> _process_app_cred(stored)) @@ cache
                /\ audit' = Append(audit, <<"created", "application_credential", popped["id"]>>)
                /\ supplied' = (popped["id"] :>
                                  [user_id |-> user_id, project_id |-> project_id,
                                   roles |-> roles, secret |-> unhashed_secret]) @@ supplied
                /\ result' = [op |-> "create", request |-> application_credential,
                              status |-> "ok", id |-> popped["id"], value |-> ref]
        /\ UNCHANGED <<assignments, auth, calls>>

create_application_credential(application_credential) ==
    LET user_id == application_credential["user_id"]
        project_id == application_credential["project_id"]
        roles == RequestedRoles(application_credential)
        popped == Pop(application_credential, "roles")
        check == _require_user_has_role_in_project(roles, user_id, project_id)
        unhashed_secret == popped["secret"]
        stored == driver_create_application_credential(popped, roles)
        ref == _process_app_cred(Put(stored, "secret", unhashed_secret))
    IN  /\ NextId <= MaxCreds
        /\ application_credential["id"] = NextId
        /\ IF check.status # "ok"
           THEN /\ result' = [op |-> "create", request |-> application_credential] @@ check
                /\ UNCHANGED <<store, audit, supplied>>
           ELSE /\ store' = (popped["id"] :> stored) @@ store
                /\ audit' = Append(audit, <<"created", "application_credential", popped["id"]>>)
                /\ supplied' = (popped["id"] :>
                                  [user_id |-> user_id, project_id |-> project_id,
                                   roles |-> roles, secret |-> unhashed_secret]) @@ supplied
                /\ result' = [op |-> "create", request |-> application_credential,
                              status |-> "ok", id |-> popped["id"], value |-> ref]
        /\ UNCHANGED <<cache, assignments, auth, calls>>

get_application_credential(application_credential_id) ==
    LET key == CacheKey(<<application_credential_id>>)
        app_cred == driver_get_application_credential(application_credential_id)
    IN  /\ IF key \in DOMAIN cache
           THEN /\ result' = [op |-> "get", status |-> "ok",
                              id |-> application_credential_id, value |-> cache[key]]
                /\ UNCHANGED cache
           ELSE IF app_cred.status = "ok"
           THEN /\ cache' = (key :> _process_app_cred(app_cred.value)) @@ cache
                /\ result' = [op |-> "get", status |-> "ok",
                              id |-> application_credential_id,
                              value |-> _process_app_cred(app_cred.value)]
           ELSE /\ result' = [op |-> "get", status |-> "NotFound",
                              id |-> application_credential_id]
                /\ UNCHANGED cache
        /\ UNCHANGED <<store, assignments, audit, supplied, auth, calls>>

list_application_credentials(user_id) ==
    LET app_cred_list == driver_list_application_credentials_for_user(user_id)
    IN  /\ result' = [op |-> "list", status |-> "ok", user_id |-> user_id,
                      value |-> [k \in DOMAIN app_cred_list |->
                                    _process_app_cred(app_cred_list[k])]]
        /\ UNCHANGED <<store, cache, assignments, audit, supplied, auth, calls>>

\* delete_application_credential that emits the audit event before the driver
\* has confirmed the deletion.
delete_application_credential_audit_first(application_credential_id) ==
    /\ cache' = invalidate(<<>>)
    /\ audit' = Append(audit, <<"deleted", "application_credential",
                                application_credential_id>>)
    /\ IF application_credential_id \in DOMAIN store
       THEN /\ store' = driver_delete_application_credential(application_credential_id)
            /\ result' = [op |-> "delete", status |-> "ok",
                          id |-> application_credential_id]
       ELSE /\ result' = [op |-> "delete", status |-> "NotFound",
                          id |-> application_credential_id]
            /\ UNCHANGED store
    /\ UNCHANGED <<assignments, supplied, auth, calls>>

\* The invalidate call is given no argument: not the manager, not the id.
delete_application_credential(application_credential_id) ==
    /\ cache' = invalidate(<<>>)
    /\ IF application_credential_id \in DOMAIN store
       THEN /\ store' = driver_delete_application_credential(application_credential_id)
            /\ audit' = Append(audit, <<"deleted", "application_credential",
                                        application_credential_id>>)
            /\ result' = [op |-> "delete", status |-> "ok",
                          id |-> application_credential_id]
       ELSE /\ result' = [op |-> "delete", status |-> "NotFound",
                          id |-> application_credential_id]
            /\ UNCHANGED <<store, audit>>
    /\ UNCHANGED <<assignments, supplied, auth, calls>>

\* The secrets a caller may present: the issued ones and one never issued.
PresentedSecrets == Secrets \cup {"s0"}

\* Manager.authenticate that accepts a credential the cache of
\* get_application_credential still holds.
Manager_authenticate_memoized(application_credential_id, secret) ==
    /\ result' = [op |-> "authenticate", id |-> application_credential_id,
                  secret |-> secret] @@
                 (IF CacheKey(<<application_credential_id>>) \in DOMAIN cache
                  THEN [status |-> "ok"]
                  ELSE driver_authenticate(application_credential_id, secret))
    /\ UNCHANGED <<store, cache, assignments, audit, supplied, auth, calls>>

\* Manager.authenticate: the driver's verdict, nothing else.
Manager_authenticate(application_credential_id, secret) ==
    /\ result' = [op |-> "authenticate", id |-> application_credential_id,
                  secret |-> secret] @@
                 driver_authenticate(application_credential_id, secret)
    /\ UNCHANGED <<store, cache, assignments, audit, supplied, auth, calls>>

\* _delete_application_credentials_for_user that deletes the credentials of the
\* user's first project only.
_delete_application_credentials_for_user_one_project(user_id) ==
    store' = driver_delete_application_credentials_for_user_on_project(user_id, "p1")

_delete_application_credentials_for_user(user_id) ==
    store' = driver_delete_application_credentials_for_user(user_id)

\* _delete_application_credentials_for_user_on_project that drops the project.
_delete_application_credentials_for_user_all_projects(user_id, project_id) ==
    store' = driver_delete_application_credentials_for_user(user_id)

_delete_application_credentials_for_user_on_project(user_id, project_id) ==
    store' = driver_delete_application_credentials_for_user_on_project(user_id, project_id)

\* The listener of the user deleted and the user disabled notifications.
_delete_app_creds_on_user_delete_callback(operation, payload) ==
    LET user_id == payload["resource_info"]
    IN  /\ _delete_application_credentials_for_user(user_id)
        /\ result' = [op |-> "user_callback", status |-> "ok", user_id |-> user_id]
        /\ UNCHANGED <<cache, assignments, audit, supplied, auth, calls>>

\* The listener of the notification a removed role assignment emits.
_delete_app_creds_on_assignment_removal(payload) ==
    LET user_id == payload["resource_info"]["user_id"]
        project_id == payload["resource_info"]["project_id"]
    IN  /\ _delete_application_credentials_for_user_on_project(user_id, project_id)
        /\ result' = [op |-> "assignment_callback", status |-> "ok",
                      user_id |-> user_id, project_id |-> project_id]
        /\ UNCHANGED <<cache, assignments, audit, supplied, auth, calls>>

\* The assignment subsystem takes a role away from a user on a project.
RemoveRoleAssignment(user_id, project_id, role_id) ==
    /\ <<user_id, project_id, role_id>> \in assignments
    /\ assignments' = assignments \ { <<user_id, project_id, role_id>> }
    /\ result' = NoCall
    /\ UNCHANGED <<store, cache, audit, supplied, auth, calls>>

\* The memoization region drops an entry whose expiration time has passed.
ExpireCacheEntry(key) ==
    /\ key \in DOMAIN cache
    /\ cache' = Without(cache, key)
    /\ result' = NoCall
    /\ UNCHANGED <<store, assignments, audit, supplied, auth, calls>>

\* ------------------------------------------- external authentication

\* CONF.identity.default_domain_id
default_domain_id == "default"

\* The domains and the users of the identity backend.
IdentityDomains == { [id |-> "default", name |-> "Default"], [id |-> "did1", name |-> "d1"] }

IdentityUsers ==
    { [id |-> "uid_alice_default", name |-> "alice", domain_id |-> "default"],
      [id |-> "uid_alice_d1", name |-> "alice", domain_id |-> "did1"],
      [id |-> "uid_bob_d1", name |-> "bob", domain_id |-> "did1"] }

\* The requests: remote_user and remote_domain are "" when the upstream layer
\* asserts none, auth_type is "" when it declares no mechanism.
RemoteUsers == {"", "alice", "bob", "ghost"}

RemoteDomains == {"", "d1", "Default", "nodomain"}

AuthTypes == {"", "Negotiate", "negotiate", "Basic"}

Requests ==
    [remote_user : RemoteUsers, remote_domain : RemoteDomains, auth_type : AuthTypes]

\* str.lower() on the mechanisms above.
lower(s) ==
    CASE s = "Negotiate" -> "negotiate"
      [] s = "Basic" -> "basic"
      [] OTHER -> s

\* identity_api.get_user_by_name(name, domain_id); the backend may be out of
\* reach, and then the lookup raises an error of its own.
get_user_by_name(backend, user_name, domain_id) ==
    LET found == { u \in IdentityUsers : u.name = user_name /\ u.domain_id = domain_id }
        call == << <<"get_user_by_name", user_name, domain_id>> >>
    IN  IF backend = "down" THEN [status |-> "BackendError", lookups |-> call]
        ELSE IF found = {} THEN [status |-> "UserNotFound", lookups |-> call]
        ELSE [status |-> "ok", value |-> CHOOSE u \in found : TRUE, lookups |-> call]

\* resource_api.get_domain_by_name(name)
get_domain_by_name(backend, domain_name) ==
    LET found == { d \in IdentityDomains : d.name = domain_name }
        call == << <<"get_domain_by_name", domain_name>> >>
    IN  IF backend = "down" THEN [status |-> "BackendError", lookups |-> call]
        ELSE IF found = {} THEN [status |-> "DomainNotFound", lookups |-> call]
        ELSE [status |-> "ok", value |-> CHOOSE d \in found : TRUE, lookups |-> call]

DefaultDomain_authenticate(backend, request) ==
    get_user_by_name(backend, request.remote_user, default_domain_id)

\* Domain._authenticate that never reads request.remote_domain.
Domain_authenticate_default_only(backend, request) ==
    get_user_by_name(backend, request.remote_user, default_domain_id)

Domain_authenticate(backend, request) ==
    IF request.remote_domain # ""
    THEN LET ref == get_domain_by_name(backend, request.remote_domain)
         IN  IF ref.status # "ok" THEN ref
             ELSE LET user == get_user_by_name(backend, request.remote_user, ref.value.id)
                  IN  [user EXCEPT !.lookups = ref.lookups \o @]
    ELSE get_user_by_name(backend, request.remote_user, default_domain_id)

\* KerberosDomain._authenticate that compares the mechanism without its case.
KerberosDomain_authenticate_any_case(backend, request) ==
    IF lower(request.auth_type) # "negotiate"
    THEN [status |-> "Unauthorized", message |-> "auth_type is not Negotiate",
          lookups |-> << >>]
    ELSE Domain_authenticate(backend, request)

KerberosDomain_authenticate(backend, request) ==
    IF request.auth_type # "Negotiate"
    THEN [status |-> "Unauthorized", message |-> "auth_type is not Negotiate",
          lookups |-> << >>]
    ELSE Domain_authenticate(backend, request)

Plugins == {"DefaultDomain", "Domain", "KerberosDomain"}

\* self._authenticate(request) of the plugin class.
_authenticate(plugin, backend, request) ==
    CASE plugin = "DefaultDomain" -> DefaultDomain_authenticate(backend, request)
      [] plugin = "Domain" -> Domain_authenticate(backend, request)
      [] plugin = "KerberosDomain" -> KerberosDomain_authenticate(backend, request)

\* Base.authenticate that catches the not-found errors only.
authenticate_catches_not_found_only(plugin, backend, token_bind, request) ==
    LET user_ref == _authenticate(plugin, backend, request)
    IN  IF request.remote_user = ""
        THEN [status |-> "Unauthorized", message |-> "No authenticated user",
              lookups |-> << >>]
        ELSE IF user_ref.status \in {"UserNotFound", "DomainNotFound"}
        THEN [status |-> "Unauthorized",
              message |-> "Unable to lookup user " \o request.remote_user,
              lookups |-> user_ref.lookups]
        ELSE IF user_ref.status # "ok"
        THEN [status |-> user_ref.status, lookups |-> user_ref.lookups]
        ELSE [status |-> "ok",
              response_data |-> [user_id |-> user_ref.value.id],
              lookups |-> user_ref.lookups]

\* Base.authenticate(request, auth_payload): what it returns or raises, and the
\* lookups it made. token_bind is CONF.token.bind.
authenticate(plugin, backend, token_bind, request) ==
    LET user_ref == _authenticate(plugin, backend, request)
        response_data == [user_id |-> user_ref.value.id]
        auth_type == lower(request.auth_type)
    IN  IF request.remote_user = ""
        THEN [status |-> "Unauthorized", message |-> "No authenticated user",
              lookups |-> << >>]
        ELSE IF user_ref.status # "ok"
        THEN [status |-> "Unauthorized",
              message |-> "Unable to lookup user " \o request.remote_user,
              lookups |-> user_ref.lookups]
        ELSE [status |-> "ok",
              response_data |->
                  IF "kerberos" \in token_bind /\ auth_type = "negotiate"
                  THEN Put(response_data, "bind", [kerberos |-> user_ref.value.name])
                  ELSE response_data,
              lookups |-> user_ref.lookups]

\* One authentication request handled by one plugin.
Authenticate(plugin) ==
    /\ \E backend \in {"up", "down"}, token_bind \in { {}, {"kerberos"} }, request \in Requests :
          auth' = [op |-> "authenticate", plugin |-> plugin, backend |-> backend,
                   token_bind |-> token_bind, request |-> request,
                   outcome |-> authenticate(plugin, backend, token_bind, request)]
    /\ UNCHANGED managerVars

NoAuth == [op |-> "none"]

Init ==
    /\ store = << >>
    /\ cache = << >>
    /\ assignments = InitialAssignments
    /\ audit = << >>
    /\ supplied = << >>
    /\ result = NoCall
    /\ steps = 0
    /\ auth = NoAuth
    /\ calls = << >>

\* Every step of a run counts against MaxSteps.
Tick == steps < MaxSteps /\ steps' = steps + 1

Create ==
    /\ Tick
    /\ \E r \in CreateRequests(NextId) : create_application_credential(r)

Get ==
    /\ Tick
    /\ \E i \in Ids : get_application_credential(i)

List ==
    /\ Tick
    /\ \E u \in Users : list_application_credentials(u)

Delete ==
    /\ Tick
    /\ \E i \in Ids : delete_application_credential(i)

AuthenticateCredential ==
    /\ Tick
    /\ \E i \in Ids, secret \in PresentedSecrets : Manager_authenticate(i, secret)

UserEvent ==
    /\ Tick
    /\ \E operation \in {"deleted", "disabled"}, u \in Users :
          _delete_app_creds_on_user_delete_callback(operation, [resource_info |-> u])

AssignmentEvent ==
    /\ Tick
    /\ \E u \in Users, p \in Projects :
          _delete_app_creds_on_assignment_removal(
              [resource_info |-> [user_id |-> u, project_id |-> p]])

RoleLost ==
    /\ Tick
    /\ \E a \in assignments : RemoveRoleAssignment(a[1], a[2], a[3])

Expire ==
    /\ Tick
    /\ \E k \in DOMAIN cache : ExpireCacheEntry(k)

Next ==
    \/ Create
    \/ Get
    \/ List
    \/ Delete
    \/ AuthenticateCredential
    \/ UserEvent
    \/ AssignmentEvent
    \/ RoleLost
    \/ Expire

Spec == Init /\ [][Next]_vars

DefaultDomainAuthenticate == Authenticate("DefaultDomain")

DomainAuthenticate == Authenticate("Domain")

KerberosDomainAuthenticate == Authenticate("KerberosDomain")

NextAuth ==
    \/ DefaultDomainAuthenticate
    \/ DomainAuthenticate
    \/ KerberosDomainAuthenticate

SpecAuth == Init /\ [][NextAuth]_vars

\* ------------------------------------------- the calls, one step at a time
\* The manager takes no lock: each call runs on its own thread and the steps
\* of different calls interleave. A call is begun by its first step.

Done(c) == calls[c].pc = "done"

CallsOf(op) == { c \in DOMAIN calls : calls[c].op = op }

\* The id the next create call carries: ids are generated fresh.
NextCallId == Cardinality(CallsOf("create")) + 1

\* What the steps of this specification leave alone.
atomicVars == <<supplied, result, steps, auth>>

\* create, lines 126-129: the role check, once for every requested role.
create_check_roles(application_credential) ==
    LET user_id == application_credential["user_id"]
        project_id == application_credential["project_id"]
        roles == RequestedRoles(application_credential)
        check == _require_user_has_role_in_project(roles, user_id, project_id)
    IN  /\ NextCallId <= MaxCreds
        /\ application_credential["id"] = NextCallId
        /\ calls' = Append(calls,
              IF check.status = "ok"
              THEN [op |-> "create", pc |-> "checked", id |-> NextCallId,
                    request |-> application_credential,
                    verified |-> _get_user_roles(user_id, project_id) \cap RoleIds(roles),
                    trace |-> <<"role_check">>]
              ELSE [op |-> "create", pc |-> "done", id |-> NextCallId,
                    status |-> "RoleAssignmentNotFound"])
        /\ UNCHANGED <<store, cache, assignments, audit>>
        /\ UNCHANGED atomicVars

\* create that emits the audit event before the driver has answered.
create_driver_create_audit_first(c) ==
    LET application_credential == calls[c].request
        roles == RequestedRoles(application_credential)
        popped == Pop(application_credential, "roles")
        stored == driver_create_application_credential(popped, roles)
    IN  /\ calls[c].op = "create"
        /\ calls[c].pc = "checked"
        /\ audit' = Append(audit, <<"created", "application_credential", calls[c].id>>)
        /\ \/ /\ store' = (popped["id"] :> stored) @@ store
              /\ calls' = [calls EXCEPT ![c] =
                              [op |-> "create", pc |-> "done", id |-> calls[c].id,
                               status |-> "ok"]]
           \/ /\ calls' = [calls EXCEPT ![c] =
                              [op |-> "create", pc |-> "done", id |-> calls[c].id,
                               status |-> "DriverError"]]
              /\ UNCHANGED store
        /\ UNCHANGED <<cache, assignments>>
        /\ UNCHANGED atomicVars

\* create, lines 130-132: the driver stores the record, or raises.
create_driver_create(c) ==
    LET application_credential == calls[c].request
        roles == RequestedRoles(application_credential)
        popped == Pop(application_credential, "roles")
        stored == driver_create_application_credential(popped, roles)
    IN  /\ calls[c].op = "create"
        /\ calls[c].pc = "checked"
        /\ \/ /\ store' = (popped["id"] :> stored) @@ store
              /\ calls' = [calls EXCEPT ![c].pc = "created",
                                        ![c].trace = Append(@, "driver_create")]
           \/ /\ calls' = [calls EXCEPT ![c] =
                              [op |-> "create", pc |-> "done", id |-> calls[c].id,
                               status |-> "DriverError"]]
              /\ UNCHANGED store
        /\ UNCHANGED <<cache, assignments, audit>>
        /\ UNCHANGED atomicVars

\* create, lines 133-139: the audit event, and the return.
create_notify(c) ==
    /\ calls[c].op = "create"
    /\ calls[c].pc = "created"
    /\ audit' = Append(audit, <<"created", "application_credential", calls[c].id>>)
    /\ calls' = [calls EXCEPT ![c] =
                    [op |-> "create", pc |-> "done", id |-> calls[c].id,
                     status |-> "ok"]]
    /\ UNCHANGED <<store, cache, assignments>>
    /\ UNCHANGED atomicVars

\* Whether a delete of the id has passed its invalidate call.
InvalidationDone(application_credential_id) ==
    \E d \in CallsOf("delete") : calls[d].id = application_credential_id

\* get, the decorator: the cache is asked first.
get_cache_lookup(application_credential_id) ==
    LET key == CacheKey(<<application_credential_id>>)
    IN  /\ calls' = Append(calls,
              IF key \in DOMAIN cache
              THEN [op |-> "get", pc |-> "done", id |-> application_credential_id,
                    status |-> "ok", hit |-> TRUE]
              ELSE [op |-> "get", pc |-> "miss", id |-> application_credential_id,
                    trace |-> <<"cache_miss">>])
        /\ UNCHANGED <<store, cache, assignments, audit>>
        /\ UNCHANGED atomicVars

\* get, lines 149-151: the decorated function reads the driver.
get_driver_get(c) ==
    LET app_cred == driver_get_application_credential(calls[c].id)
    IN  /\ calls[c].op = "get"
        /\ calls[c].pc = "miss"
        /\ calls' = [calls EXCEPT ![c] =
              IF app_cred.status = "ok"
              THEN [value |-> _process_app_cred(app_cred.value)] @@
                   [@ EXCEPT !.pc = "fetched", !.trace = Append(@, "driver_get")]
              ELSE [op |-> "get", pc |-> "done", id |-> calls[c].id,
                    status |-> "NotFound", hit |-> FALSE]]
        /\ UNCHANGED <<store, cache, assignments, audit>>
        /\ UNCHANGED atomicVars

\* get, the decorator: the value is put in the cache and returned.
get_cache_set(c) ==
    /\ calls[c].op = "get"
    /\ calls[c].pc = "fetched"
    /\ cache' = (CacheKey(<<calls[c].id>>) :> calls[c].value) @@ cache
    /\ calls' = [calls EXCEPT ![c] =
          [op |-> "get", pc |-> "done", id |-> calls[c].id,
           status |-> "ok", hit |-> FALSE,
           set_after_invalidation |-> InvalidationDone(calls[c].id)]]
    /\ UNCHANGED <<store, assignments, audit>>
    /\ UNCHANGED atomicVars

\* delete, line 176: the invalidate call, given no argument.
delete_invalidate(application_credential_id) ==
    /\ cache' = invalidate(<<>>)
    /\ calls' = Append(calls,
          [op |-> "delete", pc |-> "invalidated", id |-> application_credential_id,
           trace |-> <<"invalidate">>,
           get_running |-> \E g \in CallsOf("get") :
                              calls[g].id = application_credential_id /\ ~Done(g)])
    /\ UNCHANGED <<store, assignments, audit>>
    /\ UNCHANGED atomicVars

\* delete, line 177: the driver deletes the record, or raises NotFound.
delete_driver_delete(c) ==
    /\ calls[c].op = "delete"
    /\ calls[c].pc = "invalidated"
    /\ IF calls[c].id \in DOMAIN store
       THEN /\ store' = driver_delete_application_credential(calls[c].id)
            /\ calls' = [calls EXCEPT ![c].pc = "deleted",
                                      ![c].trace = Append(@, "driver_delete")]
       ELSE /\ calls' = [calls EXCEPT ![c] =
                            [op |-> "delete", pc |-> "done", id |-> calls[c].id,
                             status |-> "NotFound",
                             get_running |-> calls[c].get_running]]
            /\ UNCHANGED store
    /\ UNCHANGED <<cache, assignments, audit>>
    /\ UNCHANGED atomicVars

\* delete, lines 178-179: the audit event, and the return.
delete_notify(c) ==
    /\ calls[c].op = "delete"
    /\ calls[c].pc = "deleted"
    /\ audit' = Append(audit, <<"deleted", "application_credential", calls[c].id>>)
    /\ calls' = [calls EXCEPT ![c] =
                    [op |-> "delete", pc |-> "done", id |-> calls[c].id,
                     status |-> "ok", get_running |-> calls[c].get_running]]
    /\ UNCHANGED <<store, cache, assignments>>
    /\ UNCHANGED atomicVars

\* The assignment subsystem takes a role away and notifies the listener, which
\* runs on the thread of the removal.
remove_role_assignment(user_id, project_id, role_id) ==
    /\ <<user_id, project_id, role_id>> \in assignments
    /\ assignments' = assignments \ { <<user_id, project_id, role_id>> }
    /\ calls' = Append(calls,
          [op |-> "assignment_callback", pc |-> "notified",
           user_id |-> user_id, project_id |-> project_id,
           trace |-> <<"assignment_removed">>])
    /\ UNCHANGED <<store, cache, audit>>
    /\ UNCHANGED atomicVars

\* _delete_app_creds_on_assignment_removal: the bulk delete of the driver.
assignment_removal_callback(c) ==
    /\ calls[c].op = "assignment_callback"
    /\ calls[c].pc = "notified"
    /\ store' = driver_delete_application_credentials_for_user_on_project(
                    calls[c].user_id, calls[c].project_id)
    /\ calls' = [calls EXCEPT ![c] =
                    [op |-> "assignment_callback", pc |-> "done", status |-> "ok"]]
    /\ UNCHANGED <<cache, assignments, audit>>
    /\ UNCHANGED atomicVars

\* The step-by-step runs follow the calls about one user's credentials on one
\* project.
ConcUsers == {"u1"}

ConcProjects == {"p1"}

\* The role lists of the step-by-step runs: each set of roles once.
ConcRoleLists ==
    { << >>, <<RoleRef("r1")>>, <<RoleRef("r2")>>, <<RoleRef("r1"), RoleRef("r2")>> }

ConcRequests(id) ==
    { r \in CreateRequests(id) :
        /\ r["user_id"] \in ConcUsers
        /\ r["project_id"] \in ConcProjects
        /\ "roles" \in DOMAIN r
        /\ r["roles"] \in ConcRoleLists }

CreateCheckRoles ==
    /\ Len(calls) < MaxCalls
    /\ \E r \in ConcRequests(NextCallId) : create_check_roles(r)

CreateDriverCreate == \E c \in DOMAIN calls : create_driver_create(c)

CreateNotify == \E c \in DOMAIN calls : create_notify(c)

GetCacheLookup ==
    /\ Len(calls) < MaxCalls
    /\ \E i \in Ids : get_cache_lookup(i)

GetDriverGet == \E c \in DOMAIN calls : get_driver_get(c)

GetCacheSet == \E c \in DOMAIN calls : get_cache_set(c)

DeleteInvalidate ==
    /\ Len(calls) < MaxCalls
    /\ \E i \in Ids : delete_invalidate(i)

DeleteDriverDelete == \E c \in DOMAIN calls : delete_driver_delete(c)

DeleteNotify == \E c \in DOMAIN calls : delete_notify(c)

AssignmentRemoved ==
    /\ Len(calls) < MaxCalls
    /\ \E a \in { b \in assignments : b[1] \in ConcUsers /\ b[2] \in ConcProjects } :
          remove_role_assignment(a[1], a[2], a[3])

AssignmentRemovalCallback == \E c \in DOMAIN calls : assignment_removal_callback(c)

NextConc ==
    \/ CreateCheckRoles
    \/ CreateDriverCreate
    \/ CreateNotify
    \/ GetCacheLookup
    \/ GetDriverGet
    \/ GetCacheSet
    \/ DeleteInvalidate
    \/ DeleteDriverDelete
    \/ DeleteNotify
    \/ AssignmentRemoved
    \/ AssignmentRemovalCallback

SpecConc == Init /\ [][NextConc]_vars

\* ---------------------------------------------------------------- claims

\* The audit log holds a deleted event for the credential id.
DeletedEvent(id) == <<"deleted", "application_credential", id>> \in Range(audit)

\* The number of deleted events in an audit log.
DeletedEvents(log) == Cardinality({ k \in DOMAIN log : log[k][1] = "deleted" })

\* The number of created events in an audit log.
CreatedEvents(log) == Cardinality({ k \in DOMAIN log : log[k][1] = "created" })

\* The roles the user holds on the project, read off the assignments.
EffectiveRoles(user_id, project_id) ==
    { r \in Roles : <<user_id, project_id, r>> \in assignments }

\* The requested role ids the user does not hold, in request order.
MissingRoles(req) ==
    LET roles == RequestedRoles(req)
        ids == [k \in DOMAIN roles |-> roles[k]["id"]]
        Missing(r) == r \notin EffectiveRoles(req["user_id"], req["project_id"])
    IN  SelectSeq(ids, Missing)

\* A projection exposes neither the hash nor the plaintext secret.
NoSecret(projection) ==
    /\ "secret_hash" \notin DOMAIN projection
    /\ "secret" \notin DOMAIN projection

\* C1: once delete_application_credential(id) has returned successfully (its
\* deleted audit event is in the log), a get_application_credential(id) fails
\* with NotFound and never returns the projection cached before the delete.
C1_GetAfterDeleteFails ==
    (result.op = "get" /\ DeletedEvent(result.id)) => result.status = "NotFound"

\* C2: once a cascade (user deleted, user disabled, role assignment removed)
\* has removed a credential from the store, get_application_credential(id)
\* fails with NotFound, even if the id was cached before the event.
C2_GetAfterCascadeFails ==
    (/\ result.op = "get"
     /\ result.id \in DOMAIN supplied
     /\ result.id \notin DOMAIN store
     /\ ~DeletedEvent(result.id)) => result.status = "NotFound"

\* C3: a create call that asks for a role the user does not hold on the
\* project fails with RoleAssignmentNotFound carrying the first missing role in
\* request order, the user and the project; the store, the user's list and the
\* audit log stay as they were.
C3_CreateAuthorizationFailureIsAtomic ==
    [][(result'.op = "create" /\ MissingRoles(result'.request) # << >>) =>
          /\ result'.status = "RoleAssignmentNotFound"
          /\ result'.role_id = MissingRoles(result'.request)[1]
          /\ result'.actor_id = result'.request["user_id"]
          /\ result'.target_id = result'.request["project_id"]
          /\ store' = store
          /\ { store'[i] : i \in { j \in DOMAIN store' :
                                      store'[j]["user_id"] = result'.request["user_id"] } }
                = { store[i] : i \in { j \in DOMAIN store :
                                      store[j]["user_id"] = result'.request["user_id"] } }
          /\ CreatedEvents(audit') = CreatedEvents(audit)]_vars

\* A request whose first role is held and whose second is not, made by a user
\* who has a credential already.
C3_Witness ==
    /\ result.op = "create"
    /\ result.status = "RoleAssignmentNotFound"
    /\ Len(RequestedRoles(result.request)) = 2
    /\ result.role_id = RequestedRoles(result.request)[2]["id"]
    /\ \E i \in DOMAIN store : store[i]["user_id"] = result.actor_id

\* C4: a credential enters the store only with roles the owning user holds on
\* its project when the create call checks them, and no step changes the
\* roles, the user_id or the project_id of a credential that stays in the store.
C4_RoleSubsetAtCreation ==
    [][/\ \A i \in DOMAIN store' \ DOMAIN store :
             RoleIds(store'[i]["roles"])
                \subseteq EffectiveRoles(store'[i]["user_id"], store'[i]["project_id"])
       /\ \A i \in DOMAIN store' \cap DOMAIN store :
             /\ store'[i]["roles"] = store[i]["roles"]
             /\ store'[i]["user_id"] = store[i]["user_id"]
             /\ store'[i]["project_id"] = store[i]["project_id"]]_vars

\* A stored credential scoped to a role its user has lost since the creation.
C4_Witness ==
    \E i \in DOMAIN store :
        /\ RoleIds(store[i]["roles"]) # {}
        /\ ~(RoleIds(store[i]["roles"])
                \subseteq EffectiveRoles(store[i]["user_id"], store[i]["project_id"]))

\* C5: the projection a successful create returns holds the plaintext secret
\* the caller supplied and no secret_hash; the projections get and list
\* return, and the ones the cache holds, hold neither.
C5_SecretExposure ==
    /\ (result.op = "create" /\ result.status = "ok") =>
          /\ "secret" \in DOMAIN result.value
          /\ result.value["secret"] = result.request["secret"]
          /\ "secret_hash" \notin DOMAIN result.value
    /\ (result.op = "get" /\ result.status = "ok") => NoSecret(result.value)
    /\ result.op = "list" => \A k \in DOMAIN result.value : NoSecret(result.value[k])
    /\ \A key \in DOMAIN cache : NoSecret(cache[key])

C5_Witness ==
    /\ result.op = "list"
    /\ result.value # << >>
    /\ DOMAIN cache # {}

\* C6: a get of a credential still in the store returns the user_id, the
\* project_id and the set of role ids supplied at creation, the roles expanded
\* to role objects.
C6_RoundTrip ==
    (result.op = "get" /\ result.status = "ok" /\ result.id \in DOMAIN store) =>
        /\ result.value["id"] = result.id
        /\ result.value["user_id"] = supplied[result.id].user_id
        /\ result.value["project_id"] = supplied[result.id].project_id
        /\ RoleIds(result.value["roles"]) = RoleIds(supplied[result.id].roles)
        /\ \A k \in DOMAIN result.value["roles"] :
              "name" \in DOMAIN result.value["roles"][k]

C6_Witness ==
    /\ result.op = "get"
    /\ result.status = "ok"
    /\ result.id \in DOMAIN store
    /\ RoleIds(result.value["roles"]) = {"r1", "r2"}

\* C7: a delete of an id the store does not hold fails with NotFound and
\* changes neither the store nor the audit log; a delete of a stored id removes
\* it and emits exactly one deleted event; no other step emits a deleted event.
C7_DeleteAbsent ==
    [][/\ \A i \in Ids :
             delete_application_credential(i) =>
                 IF i \in DOMAIN store
                 THEN /\ result'.status = "ok"
                      /\ store' = Without(store, i)
                      /\ audit' = Append(audit, <<"deleted", "application_credential", i>>)
                 ELSE /\ result'.status = "NotFound"
                      /\ store' = store
                      /\ audit' = audit
       /\ DeletedEvents(audit') # DeletedEvents(audit) =>
             \E i \in DOMAIN store : delete_application_credential(i)]_vars

\* The second delete of an id, after a first one that succeeded.
C7_Witness ==
    /\ result.op = "delete"
    /\ result.status = "NotFound"
    /\ DeletedEvent(result.id)

\* C8: when the listener of a user deleted or user disabled event for user u
\* has run, the store holds no credential of u, and every credential of
\* another user is in the store unchanged.
C8_UserCascade ==
    [][\A operation \in {"deleted", "disabled"}, u \in Users :
          _delete_app_creds_on_user_delete_callback(operation, [resource_info |-> u]) =>
              /\ \A i \in DOMAIN store' : store'[i]["user_id"] # u
              /\ \A i \in DOMAIN store :
                    store[i]["user_id"] # u => (i \in DOMAIN store' /\ store'[i] = store[i])]_vars

\* The listener removed a credential of its user on the second project and
\* left another user's credential.
C8_Witness ==
    /\ result.op = "user_callback"
    /\ DOMAIN store # {}
    /\ \E i \in DOMAIN supplied \ DOMAIN store :
          /\ supplied[i].user_id = result.user_id
          /\ supplied[i].project_id = "p2"
          /\ ~DeletedEvent(i)

\* C9: when the listener of a role assignment removal for (u, p) has run, the
\* store holds no credential of u on p, whatever roles it was scoped to, and
\* every credential of another user or another project is in the store
\* unchanged.
C9_AssignmentCascade ==
    [][\A u \in Users, p \in Projects :
          _delete_app_creds_on_assignment_removal(
              [resource_info |-> [user_id |-> u, project_id |-> p]]) =>
              /\ \A i \in DOMAIN store' :
                    ~(store'[i]["user_id"] = u /\ store'[i]["project_id"] = p)
              /\ \A i \in DOMAIN store :
                    ~(store[i]["user_id"] = u /\ store[i]["project_id"] = p) =>
                        (i \in DOMAIN store' /\ store'[i] = store[i])]_vars

\* The listener removed a credential scoped to two roles and left the same
\* user's credential on another project.
C9_Witness ==
    /\ result.op = "assignment_callback"
    /\ \E i \in DOMAIN supplied \ DOMAIN store :
          /\ supplied[i].user_id = result.user_id
          /\ supplied[i].project_id = result.project_id
          /\ Len(supplied[i].roles) = 2
          /\ ~DeletedEvent(i)
    /\ \E i \in DOMAIN store :
          /\ store[i]["user_id"] = result.user_id
          /\ store[i]["project_id"] # result.project_id

\* C10: an external authentication either succeeds with the id of the user the
\* lookup resolved, or raises Unauthorized, whatever the plugin and whatever
\* the lookups raise; a request without a principal raises Unauthorized and
\* makes no lookup.
C10_OnlyUnauthorized ==
    auth.op = "authenticate" =>
        /\ auth.outcome.status \in {"ok", "Unauthorized"}
        /\ auth.outcome.status = "ok" =>
              \E u \in IdentityUsers :
                  /\ u.id = auth.outcome.response_data["user_id"]
                  /\ u.name = auth.request.remote_user
                  /\ auth.outcome.lookups[Len(auth.outcome.lookups)]
                        = <<"get_user_by_name", u.name, u.domain_id>>
        /\ auth.request.remote_user = "" =>
              /\ auth.outcome.status = "Unauthorized"
              /\ auth.outcome.lookups = << >>

\* A lookup that raised an error other than not found, turned into Unauthorized.
C10_Witness ==
    /\ auth.op = "authenticate"
    /\ auth.backend = "down"
    /\ auth.request.remote_user = "alice"
    /\ auth.outcome.status = "Unauthorized"
    /\ auth.outcome.lookups # << >>

\* The user lookups an authentication made.
UserLookups(lookups) == { k \in DOMAIN lookups : lookups[k][1] = "get_user_by_name" }

\* C11: a KerberosDomain authentication of a request that carries a principal
\* and a mechanism other than exactly "Negotiate" raises Unauthorized and makes
\* no domain lookup and no user lookup.
C11_KerberosMechanismGate ==
    (/\ auth.op = "authenticate"
     /\ auth.plugin = "KerberosDomain"
     /\ auth.request.remote_user # ""
     /\ auth.request.auth_type # "Negotiate") =>
        /\ auth.outcome.status = "Unauthorized"
        /\ auth.outcome.lookups = << >>

\* The lower-case mechanism, for a user the backend would have resolved.
C11_Witness ==
    /\ auth.op = "authenticate"
    /\ auth.plugin = "KerberosDomain"
    /\ auth.backend = "up"
    /\ auth.request = [remote_user |-> "bob", remote_domain |-> "d1",
                       auth_type |-> "negotiate"]
    /\ auth.outcome.status = "Unauthorized"

\* C12: the Domain plugin looks the user up by the principal name in the
\* domain the asserted domain name resolves to, in the default domain only
\* when that is the domain the name resolves to, and in the default domain when
\* no domain name is asserted; the DefaultDomain plugin looks the user up in
\* the default domain whatever domain is asserted, and resolves no domain.
C12_DomainResolution ==
    (auth.op = "authenticate" /\ auth.request.remote_user # "") =>
        LET lookups == auth.outcome.lookups
            asserted == auth.request.remote_domain
            named == { d \in IdentityDomains : d.name = asserted }
        IN  /\ (auth.plugin = "Domain" /\ asserted # "") =>
                  /\ lookups # << >>
                  /\ lookups[1] = <<"get_domain_by_name", asserted>>
                  /\ \A k \in UserLookups(lookups) :
                        /\ lookups[k][2] = auth.request.remote_user
                        /\ \E d \in named : lookups[k][3] = d.id
                  /\ (auth.backend = "up" /\ named # {}) => UserLookups(lookups) # {}
            /\ (auth.plugin = "Domain" /\ asserted = "") =>
                  lookups = << <<"get_user_by_name", auth.request.remote_user,
                                 default_domain_id>> >>
            /\ auth.plugin = "DefaultDomain" =>
                  lookups = << <<"get_user_by_name", auth.request.remote_user,
                                 default_domain_id>> >>

\* A principal found in the asserted domain and absent from the default one.
C12_Witness ==
    /\ auth.op = "authenticate"
    /\ auth.plugin = "Domain"
    /\ auth.request.remote_user = "bob"
    /\ auth.request.remote_domain = "d1"
    /\ auth.outcome.status = "ok"
    /\ auth.outcome.response_data["user_id"] = "uid_bob_d1"

\* C17: a create leaves the cache as it was; a key enters the cache, or the
\* value under a key changes, only in a get of that key's id that found the
\* record in the store; a get that raises NotFound leaves the cache as it was.
C17_OnlyGetPopulatesCache ==
    [][ /\ result'.op = "create" => cache' = cache
        /\ (result'.op = "get" /\ result'.status = "NotFound") => cache' = cache
        /\ \A key \in DOMAIN cache' :
              (key \notin DOMAIN cache \/ cache'[key] # cache[key]) =>
                  /\ result'.op = "get"
                  /\ result'.status = "ok"
                  /\ key = CacheKey(<<result'.id>>)
                  /\ result'.id \in DOMAIN store
                  /\ cache'[key] = _process_app_cred(store[result'.id]) ]_vars

\* A create that succeeded while the cache held another id's entry: the new id
\* has none.
C17_Witness ==
    /\ result.op = "create"
    /\ result.status = "ok"
    /\ DOMAIN cache # {}
    /\ CacheKey(<<result.id>>) \notin DOMAIN cache

\* C20: a create whose request has an empty list of roles, or no roles key,
\* never raises RoleAssignmentNotFound and stores the credential, with no role,
\* whatever roles the user holds on the project.
C20_EmptyRoleRequest ==
    (result.op = "create" /\ RequestedRoles(result.request) = << >>) =>
        /\ result.status = "ok"
        /\ result.id \in DOMAIN store
        /\ store[result.id]["user_id"] = result.request["user_id"]
        /\ store[result.id]["project_id"] = result.request["project_id"]
        /\ store[result.id]["roles"] = << >>

\* A request without the roles key, by a user with no role on the project.
C20_Witness ==
    /\ result.op = "create"
    /\ "roles" \notin DOMAIN result.request
    /\ EffectiveRoles(result.request["user_id"], result.request["project_id"]) = {}
    /\ result.status = "ok"
    /\ result.id \in DOMAIN store

\* C18: Manager.authenticate succeeds exactly when the store holds a
\* credential with the given id whose secret is the one presented, whatever the
\* cache holds; it leaves the store, the cache and the audit log as they were.
C18_AuthenticateReadsTheStore ==
    [][ result'.op = "authenticate" =>
          /\ result'.status \in {"ok", "AssertionError"}
          /\ result'.status = "ok" <=>
                /\ result'.id \in DOMAIN store
                /\ supplied[result'.id]["secret"] = result'.secret
          /\ store' = store
          /\ cache' = cache
          /\ audit' = audit ]_vars

\* The right secret of a deleted credential, refused while the cache still
\* holds the credential's projection.
C18_Witness ==
    /\ result.op = "authenticate"
    /\ result.status = "AssertionError"
    /\ result.id \in DOMAIN supplied
    /\ result.id \notin DOMAIN store
    /\ supplied[result.id]["secret"] = result.secret
    /\ CacheKey(<<result.id>>) \in DOMAIN cache

\* The ids list_application_credentials returns for a user in the current
\* state.
ListedIds(user_id) ==
    LET app_cred_list == driver_list_application_credentials_for_user(user_id)
    IN  { app_cred_list[k]["id"] : k \in DOMAIN app_cred_list }

\* The list part of C19: what a list returned is the projections of the
\* store's credentials of that user, one for each, and the cache is as it was.
C19_ListReadsTheStore ==
    [][ result'.op = "list" =>
          /\ result'.status = "ok"
          /\ { result'.value[k]["id"] : k \in DOMAIN result'.value } =
                { i \in DOMAIN store : store[i]["user_id"] = result'.user_id }
          /\ Len(result'.value) =
                Cardinality({ i \in DOMAIN store : store[i]["user_id"] = result'.user_id })
          /\ \A k \in DOMAIN result'.value :
                result'.value[k] = _process_app_cred(store[result'.value[k]["id"]])
          /\ cache' = cache ]_vars

\* C19: list_application_credentials(u) returns exactly the projections of the
\* store's credentials of u and neither reads nor writes the cache; and every
\* id a get returns successfully, for owner u, is among the ids
\* list_application_credentials(u) returns in the same state.
C19_ListReflectsStore ==
    [][ /\ result'.op = "list" =>
              /\ { result'.value[k]["id"] : k \in DOMAIN result'.value } =
                    { i \in DOMAIN store : store[i]["user_id"] = result'.user_id }
              /\ cache' = cache
        /\ (result'.op = "get" /\ result'.status = "ok") =>
              result'.id \in ListedIds(result'.value["user_id"]) ]_vars

\* The created audit event of a credential.
CreatedEvent(id) == <<"created", "application_credential", id>>

\* C14: the driver stores a credential only in the step of a create call whose
\* role check found every requested role held; a created audit event is
\* emitted only by a create call whose driver create has returned; and a create
\* call that ended in an error of the role check or of the driver has no
\* created audit event.
C14_CreateStepOrder ==
    [][ /\ \A id \in DOMAIN store' \ DOMAIN store :
              \E c \in CallsOf("create") :
                 /\ calls[c].id = id
                 /\ calls[c].pc = "checked"
                 /\ calls[c].trace = <<"role_check">>
                 /\ calls[c].verified = RoleIds(RequestedRoles(calls[c].request))
        /\ audit' # audit =>
              \/ audit'[Len(audit')][1] # "created"
              \/ \E c \in CallsOf("create") :
                    /\ audit' = Append(audit, CreatedEvent(calls[c].id))
                    /\ calls[c].pc = "created"
                    /\ calls[c].trace = <<"role_check", "driver_create">>
        /\ \A c \in DOMAIN calls' :
              (/\ calls'[c].op = "create"
               /\ calls'[c].pc = "done"
               /\ calls'[c].status # "ok") =>
                  CreatedEvent(calls'[c].id) \notin Range(audit') ]_vars

\* A create the driver refused, after a create that went through: one created
\* event, of the other credential.
C14_Witness ==
    \E c, d \in CallsOf("create") :
        /\ calls[c].pc = "done"
        /\ calls[c].status = "DriverError"
        /\ calls[c].id \notin DOMAIN store
        /\ CreatedEvent(calls[c].id) \notin Range(audit)
        /\ calls[d].pc = "done"
        /\ calls[d].status = "ok"
        /\ CreatedEvent(calls[d].id) \in Range(audit)

\* Whether no get of the same id ran while the delete call d did.
NoConcurrentGet(d) ==
    /\ ~calls[d].get_running
    /\ \A g \in CallsOf("get") : calls[g].id = calls[d].id => g < d

\* The steps of a delete in the order C13 gives them, without what C13 says of
\* the cache: the deleted event of an id is in the audit log only when the
\* driver has deleted the record, and a delete that raised emitted none.
C13_AuditAfterDriverDelete ==
    [][ audit' # audit =>
          \/ audit'[Len(audit')][1] # "deleted"
          \/ \E d \in CallsOf("delete") :
                /\ audit' = Append(audit, <<"deleted", "application_credential", calls[d].id>>)
                /\ calls[d].pc = "deleted"
                /\ calls[d].trace = <<"invalidate", "driver_delete">>
                /\ calls[d].id \notin DOMAIN store ]_vars

\* C13: in a delete of an id the cache entry of the id is invalidated before
\* the driver delete is invoked, the deleted audit event is emitted only after
\* the driver delete succeeded, and, when no get of the id ran during the
\* delete, the cache holds no entry of the id from the invalidation on: when
\* the audit event is emitted and when the call returns.
C13_DeleteStepOrder ==
    \A d \in CallsOf("delete") :
        /\ (calls[d].pc = "done" /\ calls[d].status = "ok") =>
              /\ DeletedEvent(calls[d].id)
              /\ calls[d].id \notin DOMAIN store
        /\ (calls[d].pc = "done" /\ calls[d].status # "ok") =>
              (DeletedEvent(calls[d].id) =>
                  \E e \in CallsOf("delete") : e # d /\ calls[e].id = calls[d].id)
        /\ NoConcurrentGet(d) => CacheKey(<<calls[d].id>>) \notin DOMAIN cache

\* C15: once a create for a user and a project, the loss of one of the user's
\* roles on the project and the callback the loss sets off have all returned,
\* the store holds no credential of that user and project with a role the
\* user no longer holds on the project.
C15_CascadeReachesConcurrentCreate ==
    (\A c \in DOMAIN calls : Done(c)) =>
        \A i \in DOMAIN store :
            RoleIds(store[i]["roles"]) \subseteq
                EffectiveRoles(store[i]["user_id"], store[i]["project_id"])

\* Whether the cache holds an entry of an id the store does not hold.
Stale(id) == CacheKey(<<id>>) \in DOMAIN cache /\ id \notin DOMAIN store

\* The race of the documentation, after both calls returned: the get missed the
\* cache, read the record, and wrote the cache after the delete's invalidate
\* call; the delete removed the record; the entry is stale.
C16_RaceReached ==
    \E g \in CallsOf("get"), d \in CallsOf("delete") :
        /\ calls[g].id = calls[d].id
        /\ Done(g) /\ Done(d)
        /\ calls[d].status = "ok"
        /\ calls[g].status = "ok" /\ ~calls[g].hit
        /\ calls[g].set_after_invalidation
        /\ g < d
        /\ Stale(calls[g].id)

\* C16: when one get and one delete of an id have both returned and left a
\* cache entry of the id with no record in the store, the get is one that
\* missed the cache, read the record before the driver delete removed it and
\* wrote the cache after the delete's invalidation.
C16_OnlyTheRaceLeavesStaleEntry ==
    \A g \in CallsOf("get"), d \in CallsOf("delete") :
        (/\ calls[g].id = calls[d].id
         /\ Done(g) /\ Done(d)
         /\ calls[d].status = "ok"
         /\ \A h \in CallsOf("get") \cup CallsOf("delete") :
               calls[h].id = calls[g].id => h \in {g, d}
         /\ Stale(calls[g].id)) =>
            /\ calls[g].status = "ok"
            /\ ~calls[g].hit
            /\ calls[g].set_after_invalidation

====
